---- MODULE Spec2Model ----
(***************************************************************************)
(* Model of pkg/controller/controller.go: the NamespaceController, its Run *)
(* method, the shared informer it starts, and the add handler              *)
(* createCustomRules, together with the parts of the cluster the handler   *)
(* talks to (the namespace watch stream and the object store behind the    *)
(* LimitRange / ResourceQuota create calls).                               *)
(*                                                                         *)
(* Strings the code computes with (namespace names, the regular            *)
(* expression literal, the generated object names) are sequences of        *)
(* one-character strings, so that matching and formatting are computed     *)
(* character by character.                                                 *)
(***************************************************************************)
EXTENDS Integers, Sequences, FiniteSets, TLC

\* ------------------------------------------------------------------ bounds
\* Longest namespace name, counted in segments of Segments.
MaxSegs == 4
\* Watch notifications the informer accepts in one behaviour.
MaxEvents == 2
\* Notifications waiting in the informer at one time.
MaxQueue == 2

\* ------------------------------------------------------------ name universe
kube == <<"k", "u", "b", "e">>
dash == <<"-">>
aa == <<"a">>

\* Building blocks of the namespace names the cluster may hold.
Segments == {kube, dash, aa}

RECURSIVE SegNames(_)
SegNames(k) ==
  IF k = 0 THEN {<<>>}
  ELSE LET shorter == SegNames(k - 1)
       IN  shorter \cup {s \o g : s \in shorter, g \in Segments}

\* The API server only admits DNS labels: non-empty, no leading or trailing
\* hyphen.
IsDNSLabel(s) == Len(s) > 0 /\ s[1] # "-" /\ s[Len(s)] # "-"

Names == {s \in SegNames(MaxSegs) : IsDNSLabel(s)}

\* Names of each kind the handler tells apart: no "kube-" in it, "kube-" at
\* the start, "kube-" further in.
TeamA == aa \o dash \o aa
KubeA == kube \o dash \o aa
AKubeA == aa \o kube \o dash \o aa

\* ------------------------------------------------- pure functions of the code
\* The literal part of the expression "kube-.*" (line 74).
KubeDash == <<"k", "u", "b", "e", "-">>

\* `.` of the expression: any character but a newline.
Dot(c) == c # "\n"

\* The expression "kube-.*" matched with its first character at position i:
\* the literal, then `.*`, which also matches the empty string, so the rest
\* of the name is free.
MatchAt(s, i) ==
  /\ i + Len(KubeDash) - 1 <= Len(s)
  /\ \A j \in 1..Len(KubeDash) : s[i + j - 1] = KubeDash[j]
  /\ \E m \in 0..(Len(s) - (i + Len(KubeDash) - 1)) :
        \A j \in 1..m : Dot(s[i + Len(KubeDash) - 1 + j])

\* regexp.MatchString("kube-.*", s): true when the expression matches
\* anywhere in s (the expression carries no ^ anchor).
MatchString(s) == \E i \in 1..(Len(s) + 1) : MatchAt(s, i)

\* A variant of the LimitRange name that drops the hyphen before the namespace.
LimitRangeNameShort(namespaceName) ==
  <<"l", "r", "-", "a", "u", "t", "o">> \o namespaceName

\* fmt.Sprintf("lr-auto-%s", namespaceName), line 76
LimitRangeName(namespaceName) ==
  <<"l", "r", "-", "a", "u", "t", "o", "-">> \o namespaceName

\* fmt.Sprintf("rq-auto-%s", namespaceName), line 114
ResourceQuotaName(namespaceName) ==
  <<"r", "q", "-", "a", "u", "t", "o", "-">> \o namespaceName

\* resource.NewQuantity(value, resource.BinarySI): the value and its format.
\* The values used here are far inside int64, so no wrap-around is modelled.
NewQuantity(value) == [value |-> value, format |-> "BinarySI"]

\* A variant of the LimitRange body with 128 Ki in place of 128 Mi.
LimitRangeSpecKi ==
  [Limits |-> << [Type |-> "Container",
                  Default |-> [memory |-> NewQuantity(128 * 1024)],
                  DefaultRequest |-> [memory |-> NewQuantity(128 * 1024)]] >>]

\* v1.LimitRangeSpec of lines 91-101
LimitRangeSpec ==
  [Limits |-> << [Type |-> "Container",
                  Default |-> [memory |-> NewQuantity(128 * 1024 * 1024)],
                  DefaultRequest |-> [memory |-> NewQuantity(128 * 1024 * 1024)]] >>]

\* v1.ResourceQuotaSpec of lines 125-130
ResourceQuotaSpec ==
  [Hard |-> ("services.loadbalancers" :> NewQuantity(0))
              @@ ("services.nodeports" :> NewQuantity(0))]

\* ------------------------------------------------------------------- state
VARIABLES
  pool,        \* the namespace names this behaviour's cluster uses
  namespaces,  \* cluster: the namespaces that exist
  store,       \* cluster: the LimitRange / ResourceQuota objects that exist
  stopCh,      \* TRUE once the stop channel is closed
  wg,          \* counter of the caller's sync.WaitGroup
  registered,  \* whether the caller did wg.Add(1) itself before `go Run`
  callerPc,    \* the caller of Run: "init", "started", "released"
  runPc,       \* Run: "none", "entry", "added", "blocked", "done"
  informer,    \* namespaceInformer: "idle", "running", "stopped"
  queue,       \* notifications the informer has not dispatched yet
  nEvents,     \* notifications accepted so far (also the next event id)
  dispatched,  \* notifications the informer has dispatched, in order
  hPc,         \* createCustomRules: "idle", "lr" (LimitRange call outstanding),
               \* "rq" (ResourceQuota call outstanding)
  hEvt,        \* the notification createCustomRules is handling
  calls,       \* outbound API calls issued so far, in order
  logs         \* lines written with log.Println, in order

vars == <<pool, namespaces, store, stopCh, wg, registered, callerPc, runPc,
          informer, queue, nEvents, dispatched, hPc, hEvt, calls, logs>>

clusterVars == <<namespaces, store>>
runVars == <<stopCh, wg, registered, callerPc, runPc>>
handlerVars == <<hPc, hEvt, calls, logs>>

NoEvent == [id |-> 0, type |-> "none", ns |-> <<>>]

Event(id, type, ns) == [id |-> id, type |-> type, ns |-> ns]

\* v1.LimitRange / v1.ResourceQuota as built by createCustomRules.
LimitRange(namespaceName) ==
  [Kind |-> "LimitRange", Name |-> LimitRangeName(namespaceName),
   Namespace |-> namespaceName, Spec |-> LimitRangeSpec]

ResourceQuota(namespaceName) ==
  [Kind |-> "ResourceQuota", Name |-> ResourceQuotaName(namespaceName),
   Namespace |-> namespaceName, Spec |-> ResourceQuotaSpec]

\* What a complete earlier handling of namespace n left in the cluster.
Provisioned(n) == {LimitRange(n), ResourceQuota(n)}

\* A LimitRange somebody else created in namespace n under the name the
\* handler generates, with limits of their own.
OtherLimitRange(n) ==
  [Kind |-> "LimitRange", Name |-> LimitRangeName(n), Namespace |-> n,
   Spec |-> [Limits |-> << [Type |-> "Container",
                            Default |-> [memory |-> NewQuantity(64 * 1024 * 1024)],
                            DefaultRequest |->
                                [memory |-> NewQuantity(64 * 1024 * 1024)]] >>]]

\* Two objects the API server files under the same key.
SameKey(o, p) ==
  o.Kind = p.Kind /\ o.Namespace = p.Namespace /\ o.Name = p.Name

\* The state after NewNamespaceController returned and before the caller
\* starts Run: nothing started, nothing handled.  The cluster may already
\* hold namespaces, and in namespace n objects under the generated names:
\* those an earlier run of the controller left there, or somebody else's.
InitWith(n, names, callers) ==
  /\ pool = names
  /\ namespaces \in SUBSET names
  /\ store \in {s \in SUBSET (IF n \in namespaces
                                THEN Provisioned(n) \cup {OtherLimitRange(n)}
                                ELSE {}) :
                  \A o, p \in s : SameKey(o, p) => o = p}
  /\ stopCh = FALSE
  /\ wg = 0
  /\ registered \in callers
  /\ callerPc = "init"
  /\ runPc = "none"
  /\ informer = "idle"
  /\ queue = <<>>
  /\ nEvents = 0
  /\ dispatched = <<>>
  /\ hPc = "idle"
  /\ hEvt = NoEvent
  /\ calls = <<>>
  /\ logs = <<>>

\* The cluster uses one namespace name, any of Names (with the caller that
\* leaves the Add to Run), or two: TeamA and a name of one of the three kinds
\* (with either caller).
Init ==
  \/ \E n \in Names : InitWith(n, {n}, {FALSE})
  \/ \E n \in {aa, KubeA, AKubeA} : InitWith(n, {n, TeamA}, BOOLEAN)

\* ------------------------------------------------------------ the cluster
\* The API server's answer to Create(obj): the namespace must exist and hold
\* no object of that kind and name; even then the call can fail (transport,
\* admission, authorisation).
CreateErrors(obj) ==
  IF obj.Namespace \notin namespaces THEN {"NotFound"}
  ELSE IF \E o \in store : SameKey(o, obj)
       THEN {"AlreadyExists"}
       ELSE {"", "Unavailable"}

\* The notifications list, in every order the informer may see them.
Orders(S) ==
  {q \in [1..Cardinality(S) -> S] : \A i, j \in DOMAIN q : i # j => q[i] # q[j]}

Enqueue(type, order) ==
  /\ nEvents + Len(order) <= MaxEvents
  /\ Len(queue) + Len(order) <= MaxQueue
  /\ queue' = queue \o [i \in 1..Len(order) |-> Event(nEvents + i, type, order[i])]
  /\ nEvents' = nEvents + Len(order)

\* The cluster is followed from the moment the informer has listed it (what
\* happened before is in the initial state) until the informer returns.
\* A namespace is created in the cluster; the watch reports it as an add.
NsCreate(n) ==
  /\ n \notin namespaces
  /\ informer = "running"
  /\ namespaces' = namespaces \cup {n}
  /\ Enqueue("add", <<n>>)
  /\ UNCHANGED <<pool, store, informer, dispatched>>
  /\ UNCHANGED runVars
  /\ UNCHANGED handlerVars

\* A namespace is modified (labels, status); the watch reports an update.
NsUpdate(n) ==
  /\ n \in namespaces
  /\ informer = "running"
  /\ Enqueue("update", <<n>>)
  /\ UNCHANGED <<pool, namespaces, store, informer, dispatched>>
  /\ UNCHANGED runVars
  /\ UNCHANGED handlerVars

\* A namespace is deleted; the cluster removes the objects inside it and the
\* watch reports a delete.
NsDelete(n) ==
  /\ n \in namespaces
  /\ informer = "running"
  /\ namespaces' = namespaces \ {n}
  /\ store' = {o \in store : o.Namespace # n}
  /\ Enqueue("delete", <<n>>)
  /\ UNCHANGED <<pool, informer, dispatched>>
  /\ UNCHANGED runVars
  /\ UNCHANGED handlerVars

\* ------------------------------------------------- the caller and Run
\* The owner of the stop channel closes it (once).
CloseStop ==
  /\ ~stopCh
  /\ stopCh' = TRUE
  /\ UNCHANGED <<wg, registered, callerPc, runPc>>
  /\ UNCHANGED <<pool, informer, queue, nEvents, dispatched>>
  /\ UNCHANGED clusterVars
  /\ UNCHANGED handlerVars

\* The caller starts Run(stopCh, wg) on a goroutine, after a wg.Add(1) of its
\* own when `registered`.
CallerStart ==
  /\ callerPc = "init"
  /\ callerPc' = "started"
  /\ runPc' = "entry"
  /\ wg' = IF registered THEN wg + 1 ELSE wg
  /\ UNCHANGED <<stopCh, registered>>
  /\ UNCHANGED <<pool, informer, queue, nEvents, dispatched>>
  /\ UNCHANGED clusterVars
  /\ UNCHANGED handlerVars

\* The caller's wg.Wait() returns: the counter is zero at a moment the caller
\* is in Wait (which it may enter any time after starting Run).
CallerRelease ==
  /\ callerPc = "started"
  /\ wg = 0
  /\ callerPc' = "released"
  /\ UNCHANGED <<stopCh, wg, registered, runPc>>
  /\ UNCHANGED <<pool, informer, queue, nEvents, dispatched>>
  /\ UNCHANGED clusterVars
  /\ UNCHANGED handlerVars

\* Run, lines 28-31: defer wg.Done(); wg.Add(1).
RunAdd ==
  /\ runPc = "entry"
  /\ runPc' = "added"
  /\ wg' = wg + 1
  /\ UNCHANGED <<stopCh, registered, callerPc>>
  /\ UNCHANGED <<pool, informer, queue, nEvents, dispatched>>
  /\ UNCHANGED clusterVars
  /\ UNCHANGED handlerVars

\* Run, line 34: go c.namespaceInformer.Run(stopCh); Run then blocks on the
\* receive from stopCh.
RunGo ==
  /\ runPc = "added"
  /\ runPc' = "blocked"
  /\ UNCHANGED <<stopCh, wg, registered, callerPc>>
  /\ UNCHANGED <<pool, informer, queue, nEvents, dispatched>>
  /\ UNCHANGED clusterVars
  /\ UNCHANGED handlerVars

\* Variants of the return of Run: one that forgets wg.Done(), one that does
\* not wait for the stop channel.
RunReturnNoDone ==
  /\ runPc = "blocked"
  /\ stopCh
  /\ runPc' = "done"
  /\ UNCHANGED <<stopCh, wg, registered, callerPc>>
  /\ UNCHANGED <<pool, informer, queue, nEvents, dispatched>>
  /\ UNCHANGED clusterVars
  /\ UNCHANGED handlerVars

RunReturnNoBlock ==
  /\ runPc = "blocked"
  /\ runPc' = "done"
  /\ wg' = wg - 1
  /\ UNCHANGED <<stopCh, registered, callerPc>>
  /\ UNCHANGED <<pool, informer, queue, nEvents, dispatched>>
  /\ UNCHANGED clusterVars
  /\ UNCHANGED handlerVars

\* A variant of the return of Run that first waits for the informer to have
\* returned.
RunReturnAfterInformer ==
  /\ runPc = "blocked"
  /\ stopCh
  /\ informer = "stopped"
  /\ runPc' = "done"
  /\ wg' = wg - 1
  /\ UNCHANGED <<stopCh, registered, callerPc>>
  /\ UNCHANGED <<pool, informer, queue, nEvents, dispatched>>
  /\ UNCHANGED clusterVars
  /\ UNCHANGED handlerVars

\* Run, lines 37-38 and the deferred call of line 28: the receive from the
\* closed stopCh completes, Run returns and wg.Done() runs.
RunReturn ==
  /\ runPc = "blocked"
  /\ stopCh
  /\ runPc' = "done"
  /\ wg' = wg - 1
  /\ UNCHANGED <<stopCh, registered, callerPc>>
  /\ UNCHANGED <<pool, informer, queue, nEvents, dispatched>>
  /\ UNCHANGED clusterVars
  /\ UNCHANGED handlerVars

\* ------------------------------------------------------------ the informer
\* The goroutine of line 34 starts namespaceInformer.Run(stopCh): it lists
\* the namespaces and reports each as an add, unless the stop channel is
\* closed already.
InformerStart ==
  /\ runPc \in {"blocked", "done"}
  /\ informer = "idle"
  /\ informer' = "running"
  /\ IF stopCh THEN UNCHANGED <<queue, nEvents>>
               ELSE \E order \in Orders(namespaces) : Enqueue("add", order)
  /\ UNCHANGED <<pool, dispatched>>
  /\ UNCHANGED clusterVars
  /\ UNCHANGED runVars
  /\ UNCHANGED handlerVars

\* The resync period of line 55 elapses: every namespace the informer knows
\* is put through the informer again, marked as a sync.
Resync ==
  /\ informer = "running"
  /\ ~stopCh
  /\ namespaces # {}
  /\ \E order \in Orders(namespaces) : Enqueue("sync", order)
  /\ UNCHANGED <<pool, informer, dispatched>>
  /\ UNCHANGED clusterVars
  /\ UNCHANGED runVars
  /\ UNCHANGED handlerVars

\* namespaceInformer.Run(stopCh) returns: the stop channel is closed and no
\* handler invocation is in progress.
InformerStop ==
  /\ informer = "running"
  /\ stopCh
  /\ hPc = "idle"
  /\ informer' = "stopped"
  /\ UNCHANGED <<pool, queue, nEvents, dispatched>>
  /\ UNCHANGED clusterVars
  /\ UNCHANGED runVars
  /\ UNCHANGED handlerVars

\* ------------------------------------------------------------ the handler
\* c.kclient.CoreV1().<Kind>(into).Create(obj), as issued for notification evt;
\* result is "pending" until the call returns, then "" or the error.
Call(evt, into, obj) ==
  [evt |-> evt, verb |-> "create", into |-> into, obj |-> obj,
   result |-> "pending"]

\* log.Println(fmt.Sprintf(format, arg)), written while handling evt.
LogLine(evt, format, arg) == [evt |-> evt, format |-> format, arg |-> arg]

\* The notification the informer makes of what it accepted: an add for an
\* object it did not hold, a delete, and an update for a change or a sync of
\* an object it holds (a sync only covers objects it holds).
NotificationType(e) == IF e.type = "sync" THEN "update" ELSE e.type

\* A registration of the handler for updates in place of adds.
EventHandlerFuncsUpdateOnly ==
  [add |-> FALSE, update |-> TRUE, delete |-> FALSE]

\* A registration that also passes updates to the handler.
EventHandlerFuncsWithUpdate ==
  [add |-> TRUE, update |-> TRUE, delete |-> FALSE]

\* cache.ResourceEventHandlerFuncs{AddFunc: createCustomRules}: which
\* notification types have a callback.
EventHandlerFuncs ==
  [add |-> TRUE, update |-> FALSE, delete |-> FALSE]

\* A variant of the entry of createCustomRules that ignores the filter.
createCustomRulesNoFilter(e) ==
  LET namespaceName == e.ns
      adminNamespaces == MatchString(namespaceName)
  IN  IF TRUE
      THEN /\ calls' = Append(calls,
                  Call(e.id, namespaceName, LimitRange(namespaceName)))
           /\ hPc' = "lr"
           /\ hEvt' = e
           /\ logs' = logs
      ELSE /\ logs' = Append(logs,
                  LogLine(e.id, "Skip admin namespace: %s", namespaceName))
           /\ UNCHANGED <<hPc, hEvt, calls>>

\* A variant of the entry of createCustomRules that issues the ResourceQuota
\* call together with the LimitRange call.
createCustomRulesBothAtOnce(e) ==
  LET namespaceName == e.ns
      adminNamespaces == MatchString(namespaceName)
  IN  IF adminNamespaces # TRUE
      THEN /\ calls' = calls \o
                  << Call(e.id, namespaceName, LimitRange(namespaceName)),
                     Call(e.id, namespaceName, ResourceQuota(namespaceName)) >>
           /\ hPc' = "lr"
           /\ hEvt' = e
           /\ logs' = logs
      ELSE /\ logs' = Append(logs,
                  LogLine(e.id, "Skip admin namespace: %s", namespaceName))
           /\ UNCHANGED <<hPc, hEvt, calls>>

\* createCustomRules, lines 69-104 and 142-144: classify the name; for an
\* administrative namespace log the skip and return, otherwise build the
\* LimitRange and issue its Create call.
createCustomRules(e) ==
  LET namespaceName == e.ns
      adminNamespaces == MatchString(namespaceName)
  IN  IF adminNamespaces # TRUE
      THEN /\ calls' = Append(calls,
                  Call(e.id, namespaceName, LimitRange(namespaceName)))
           /\ hPc' = "lr"
           /\ hEvt' = e
           /\ logs' = logs
      ELSE /\ logs' = Append(logs,
                  LogLine(e.id, "Skip admin namespace: %s", namespaceName))
           /\ UNCHANGED <<hPc, hEvt, calls>>

\* A variant of the dispatch that does not wait for the callback to return
\* before it hands over the next notification.
OnNotificationConcurrent ==
  /\ informer = "running"
  /\ queue # <<>>
  /\ queue' = Tail(queue)
  /\ dispatched' = Append(dispatched, Head(queue))
  /\ IF EventHandlerFuncs[NotificationType(Head(queue))]
        THEN createCustomRules(Head(queue))
        ELSE UNCHANGED handlerVars
  /\ UNCHANGED <<pool, informer, nEvents>>
  /\ UNCHANGED clusterVars
  /\ UNCHANGED runVars

\* The informer hands its next notification to the registered callback, if
\* the notification's type has one.  The informer calls the callbacks of
\* one registration from a single goroutine, one notification after the
\* other, so the next is handed over when the callback has returned.
OnNotification ==
  /\ informer = "running"
  /\ hPc = "idle"
  /\ queue # <<>>
  /\ queue' = Tail(queue)
  /\ dispatched' = Append(dispatched, Head(queue))
  /\ IF EventHandlerFuncs[NotificationType(Head(queue))]
        THEN createCustomRules(Head(queue))
        ELSE UNCHANGED handlerVars
  /\ UNCHANGED <<pool, informer, nEvents>>
  /\ UNCHANGED clusterVars
  /\ UNCHANGED runVars

\* Variants of the return of the LimitRange call: one that returns from the
\* handler on an error, one that issues the call again on an error.
LimitRangeReturnsThenStops ==
  /\ hPc = "lr"
  /\ \E err \in CreateErrors(LimitRange(hEvt.ns)) :
       LET namespaceName == hEvt.ns
           answered == [calls EXCEPT ![Len(calls)].result = err]
           line == IF err # ""
                   THEN LogLine(hEvt.id, "Failed to create limitRange: %s", err)
                   ELSE LogLine(hEvt.id, "limitRange for Namespace: %s created",
                                namespaceName)
       IN  /\ store' = IF err = "" THEN store \cup {LimitRange(namespaceName)}
                                   ELSE store
           /\ logs' = Append(logs, line)
           /\ IF err # ""
              THEN /\ calls' = answered
                   /\ hPc' = "idle"
                   /\ hEvt' = NoEvent
              ELSE /\ calls' = Append(answered,
                        Call(hEvt.id, namespaceName, ResourceQuota(namespaceName)))
                   /\ hPc' = "rq"
                   /\ hEvt' = hEvt
  /\ UNCHANGED <<pool, namespaces, informer, queue, nEvents, dispatched>>
  /\ UNCHANGED runVars

LimitRangeReturnsThenRetries ==
  /\ hPc = "lr"
  /\ \E err \in CreateErrors(LimitRange(hEvt.ns)) :
       LET namespaceName == hEvt.ns
           answered == [calls EXCEPT ![Len(calls)].result = err]
           line == IF err # ""
                   THEN LogLine(hEvt.id, "Failed to create limitRange: %s", err)
                   ELSE LogLine(hEvt.id, "limitRange for Namespace: %s created",
                                namespaceName)
       IN  /\ store' = IF err = "" THEN store \cup {LimitRange(namespaceName)}
                                   ELSE store
           /\ logs' = Append(logs, line)
           /\ IF err # ""
              THEN /\ calls' = Append(answered,
                        Call(hEvt.id, namespaceName, LimitRange(namespaceName)))
                   /\ hPc' = "lr"
                   /\ hEvt' = hEvt
              ELSE /\ calls' = Append(answered,
                        Call(hEvt.id, namespaceName, ResourceQuota(namespaceName)))
                   /\ hPc' = "rq"
                   /\ hEvt' = hEvt
  /\ UNCHANGED <<pool, namespaces, informer, queue, nEvents, dispatched>>
  /\ UNCHANGED runVars

\* A variant of the return of the LimitRange call that, finding the name
\* taken, puts its own object in the place of the one that is there.
LimitRangeReturnsThenReplaces ==
  /\ hPc = "lr"
  /\ \E err \in CreateErrors(LimitRange(hEvt.ns)) :
       LET namespaceName == hEvt.ns
           answered == [calls EXCEPT ![Len(calls)].result = err]
           line == IF err # ""
                   THEN LogLine(hEvt.id, "Failed to create limitRange: %s", err)
                   ELSE LogLine(hEvt.id, "limitRange for Namespace: %s created",
                                namespaceName)
       IN  /\ store' = IF err \in {"", "AlreadyExists"}
                       THEN {o \in store : ~SameKey(o, LimitRange(namespaceName))}
                              \cup {LimitRange(namespaceName)}
                       ELSE store
           /\ logs' = Append(logs, line)
           /\ calls' = Append(answered,
                  Call(hEvt.id, namespaceName, ResourceQuota(namespaceName)))
           /\ hPc' = "rq"
           /\ hEvt' = hEvt
  /\ UNCHANGED <<pool, namespaces, informer, queue, nEvents, dispatched>>
  /\ UNCHANGED runVars

\* createCustomRules, lines 104-133: the LimitRange Create call returns, its
\* outcome is logged, and the ResourceQuota is built and its Create call
\* issued whatever the outcome was.
LimitRangeReturns ==
  /\ hPc = "lr"
  /\ \E err \in CreateErrors(LimitRange(hEvt.ns)) :
       LET namespaceName == hEvt.ns
           answered == [calls EXCEPT ![Len(calls)].result = err]
           line == IF err # ""
                   THEN LogLine(hEvt.id, "Failed to create limitRange: %s", err)
                   ELSE LogLine(hEvt.id, "limitRange for Namespace: %s created",
                                namespaceName)
       IN  /\ store' = IF err = "" THEN store \cup {LimitRange(namespaceName)}
                                   ELSE store
           /\ logs' = Append(logs, line)
           /\ calls' = Append(answered,
                  Call(hEvt.id, namespaceName, ResourceQuota(namespaceName)))
           /\ hPc' = "rq"
           /\ hEvt' = hEvt
  /\ UNCHANGED <<pool, namespaces, informer, queue, nEvents, dispatched>>
  /\ UNCHANGED runVars

\* A variant of the return of the ResourceQuota call that ends the informer
\* on an error.
ResourceQuotaReturnsFatal ==
  /\ hPc = "rq"
  /\ \E err \in CreateErrors(ResourceQuota(hEvt.ns)) :
       LET namespaceName == hEvt.ns
           line == IF err # ""
                   THEN LogLine(hEvt.id, "Failed to create ResourceQuotas: %s", err)
                   ELSE LogLine(hEvt.id, "ResourceQuotas for Namespace: %s created",
                                namespaceName)
       IN  /\ store' = IF err = "" THEN store \cup {ResourceQuota(namespaceName)}
                                   ELSE store
           /\ calls' = [calls EXCEPT ![Len(calls)].result = err]
           /\ logs' = Append(logs, line)
           /\ informer' = IF err # "" THEN "stopped" ELSE informer
  /\ hPc' = "idle"
  /\ hEvt' = NoEvent
  /\ UNCHANGED <<pool, namespaces, queue, nEvents, dispatched>>
  /\ UNCHANGED runVars

\* createCustomRules, lines 133-145: the ResourceQuota Create call returns,
\* its outcome is logged, and the handler returns.
ResourceQuotaReturns ==
  /\ hPc = "rq"
  /\ \E err \in CreateErrors(ResourceQuota(hEvt.ns)) :
       LET namespaceName == hEvt.ns
           line == IF err # ""
                   THEN LogLine(hEvt.id, "Failed to create ResourceQuotas: %s", err)
                   ELSE LogLine(hEvt.id, "ResourceQuotas for Namespace: %s created",
                                namespaceName)
       IN  /\ store' = IF err = "" THEN store \cup {ResourceQuota(namespaceName)}
                                   ELSE store
           /\ calls' = [calls EXCEPT ![Len(calls)].result = err]
           /\ logs' = Append(logs, line)
           /\ informer' = informer
  /\ hPc' = "idle"
  /\ hEvt' = NoEvent
  /\ UNCHANGED <<pool, namespaces, queue, nEvents, dispatched>>
  /\ UNCHANGED runVars

\* --------------------------------------------------------- specification
Next ==
  \/ \E n \in pool : NsCreate(n)
  \/ \E n \in pool : NsUpdate(n)
  \/ \E n \in pool : NsDelete(n)
  \/ CloseStop
  \/ CallerStart
  \/ CallerRelease
  \/ RunAdd
  \/ RunGo
  \/ RunReturn
  \/ InformerStart
  \/ Resync
  \/ InformerStop
  \/ OnNotification
  \/ LimitRangeReturns
  \/ ResourceQuotaReturns

Spec == Init /\ [][Next]_vars

\* The behaviours in which scheduling is fair to the goroutines of the caller,
\* of Run and of the informer: a goroutine that can take its next step takes
\* it; the informer delivers what it accepted and a creation call that was
\* issued returns.  The cluster holds two fixed namespaces.
InitFair == InitWith(TeamA, {TeamA, KubeA}, BOOLEAN)

FairSpec ==
  /\ InitFair
  /\ [][Next]_vars
  /\ WF_vars(RunAdd)
  /\ WF_vars(RunGo)
  /\ WF_vars(RunReturn)
  /\ WF_vars(InformerStart)
  /\ WF_vars(CallerRelease)
  /\ WF_vars(OnNotification)
  /\ WF_vars(LimitRangeReturns)
  /\ WF_vars(ResourceQuotaReturns)

\* --------------------------------------------------------------- properties
Range(q) == {q[i] : i \in DOMAIN q}

\* The calls issued, and the lines logged, while handling notification id.
CallsOf(id) == SelectSeq(calls, LAMBDA c : c.evt = id)
LogsOf(id) == SelectSeq(logs, LAMBDA l : l.evt = id)
KindsOf(id) == [i \in DOMAIN CallsOf(id) |-> CallsOf(id)[i].obj.Kind]

\* Add notifications that were dispatched, and those of them whose handler
\* invocation has returned.
Adds == {e \in Range(dispatched) : e.type = "add"}
Returned == {e \in Adds : hEvt.id # e.id}

Failed(c) == c.result \notin {"", "pending"}

\* s begins with the characters of p.
HasPrefix(s, p) == Len(p) <= Len(s) /\ \A i \in 1..Len(p) : s[i] = p[i]

\* C1: an add notification whose name the handler's expression matches
\* causes no LimitRange and no ResourceQuota creation call and exactly one
\* log line, the skip notice.
C1_AdminSkipped ==
  \A e \in Adds :
    MatchString(e.ns) =>
      /\ CallsOf(e.id) = <<>>
      /\ LogsOf(e.id) = << LogLine(e.id, "Skip admin namespace: %s", e.ns) >>

C1_Witness ==
  \E e \in Adds :
    /\ e.ns = KubeA
    /\ Len(LogsOf(e.id)) = 1
    /\ \E f \in Adds : ~MatchString(f.ns) /\ Len(CallsOf(f.id)) = 2

\* C2: an add notification whose name the expression does not match gets
\* exactly one LimitRange creation call and exactly one ResourceQuota creation
\* call, whatever either call returned; while it is handled, no call is
\* issued twice.
C2_ExactlyOneEach ==
  \A e \in Adds :
    ~MatchString(e.ns) =>
      /\ Len(CallsOf(e.id)) <= 2
      /\ \A i, j \in DOMAIN KindsOf(e.id) :
            i # j => KindsOf(e.id)[i] # KindsOf(e.id)[j]
      /\ e \in Returned =>
            /\ KindsOf(e.id) = <<"LimitRange", "ResourceQuota">>
            /\ \A c \in Range(CallsOf(e.id)) : c.verb = "create"

C2_Witness ==
  \E e \in Returned :
    /\ ~MatchString(e.ns)
    /\ Failed(CallsOf(e.id)[1])
    /\ Failed(CallsOf(e.id)[2])
    /\ \E f \in Returned :
          /\ Len(CallsOf(f.id)) = 2
          /\ \A c \in Range(CallsOf(f.id)) : c.result = ""

\* C3: only names that begin with "kube-" are skipped: an add notification
\* whose name does not begin with "kube-" gets both creation calls.
C3_OnlyPrefixSkipped ==
  \A e \in Returned :
    ~HasPrefix(e.ns, KubeDash) =>
      KindsOf(e.id) = <<"LimitRange", "ResourceQuota">>

\* C4: when the LimitRange creation call of a notification has returned an
\* error, the ResourceQuota creation call of that notification is issued all
\* the same.
C4_QuotaAfterFailedLimitRange ==
  \A c \in Range(calls) :
    (c.obj.Kind = "LimitRange" /\ Failed(c)) =>
      \E d \in Range(CallsOf(c.evt)) : d.obj.Kind = "ResourceQuota"

C4_Witness ==
  \E c, d \in Range(calls) :
    /\ c.obj.Kind = "LimitRange"
    /\ Failed(c)
    /\ d.evt = c.evt
    /\ d.obj.Kind = "ResourceQuota"
    /\ d.result = ""

\* C5: every creation call issued for the add notification of namespace N
\* goes to namespace N, for an object in namespace N, named lr-auto-N
\* (LimitRange) or rq-auto-N (ResourceQuota).
C5_NamesAndTarget ==
  \A c \in Range(calls) :
    \E e \in Adds :
      /\ e.id = c.evt
      /\ c.into = e.ns
      /\ c.obj.Namespace = e.ns
      /\ c.obj.Kind \in {"LimitRange", "ResourceQuota"}
      /\ c.obj.Kind = "LimitRange" =>
            c.obj.Name = <<"l", "r", "-", "a", "u", "t", "o", "-">> \o e.ns
      /\ c.obj.Kind = "ResourceQuota" =>
            c.obj.Name = <<"r", "q", "-", "a", "u", "t", "o", "-">> \o e.ns

C5_Witness ==
  \E c, d \in Range(calls) :
    /\ c.into = TeamA
    /\ c.obj.Name = <<"l", "r", "-", "a", "u", "t", "o", "-", "a", "-", "a">>
    /\ d.into # TeamA
    /\ d.obj.Kind = "ResourceQuota"

\* C6: the request bodies do not depend on the namespace: every LimitRange
\* request has one limit item, of type Container, with default and default
\* request memory 134217728; every ResourceQuota request has exactly the hard
\* limits services.loadbalancers = 0 and services.nodeports = 0.
C6_FixedBodies ==
  \A c \in Range(calls) :
    /\ c.obj.Kind = "LimitRange" =>
          /\ Len(c.obj.Spec.Limits) = 1
          /\ c.obj.Spec.Limits[1].Type = "Container"
          /\ DOMAIN c.obj.Spec.Limits[1].Default = {"memory"}
          /\ c.obj.Spec.Limits[1].Default.memory.value = 134217728
          /\ DOMAIN c.obj.Spec.Limits[1].DefaultRequest = {"memory"}
          /\ c.obj.Spec.Limits[1].DefaultRequest.memory.value = 134217728
    /\ c.obj.Kind = "ResourceQuota" =>
          /\ DOMAIN c.obj.Spec.Hard =
                {"services.loadbalancers", "services.nodeports"}
          /\ c.obj.Spec.Hard["services.loadbalancers"].value = 0
          /\ c.obj.Spec.Hard["services.nodeports"].value = 0

C6_Witness ==
  \E c, d \in Range(calls) :
    /\ c.into # d.into
    /\ c.obj.Kind = "LimitRange"
    /\ d.obj.Kind = "LimitRange"
    /\ c.obj.Spec = d.obj.Spec
    /\ \E q \in Range(calls) : q.obj.Kind = "ResourceQuota"

\* C7: a failed creation call does not stop the watcher: the informer stops
\* only once the stop channel is closed, and an add notification handled after
\* some earlier call failed still gets both creation calls.
C7_FailureDoesNotStop ==
  /\ informer = "stopped" => stopCh
  /\ \A e \in Returned :
       (/\ ~MatchString(e.ns)
        /\ \E c \in Range(calls) : c.evt < e.id /\ Failed(c)) =>
          KindsOf(e.id) = <<"LimitRange", "ResourceQuota">>

C7_Witness ==
  /\ informer = "running"
  /\ ~stopCh
  /\ hPc = "idle"
  /\ \E e \in Returned :
       /\ \E c \in Range(calls) : c.evt < e.id /\ Failed(c)
       /\ Len(CallsOf(e.id)) = 2
       /\ CallsOf(e.id)[1].result = ""

\* C8 as stated: a caller that did wg.Add(1) before starting Run finds the
\* counter at zero, and so is let through wg.Wait(), once Run has returned.
C8_RegisteredCallerReleased ==
  (registered /\ runPc = "done") => wg = 0

\* C8, amended: Run brackets itself with wg.Add(1) and wg.Done(): its return
\* takes the counter down by one, back to its value when Run was entered; a
\* caller that started Run without an Add of its own and waits on the group is
\* eventually released once the stop channel is closed, and a caller that
\* added for Run itself is never released.
C8_RunSignalsWaitGroup ==
  /\ [][(runPc # "done" /\ runPc' = "done") => wg' = wg - 1]_vars
  /\ [](runPc = "done" => wg = (IF registered THEN 1 ELSE 0))
  /\ (~registered /\ callerPc = "started" /\ stopCh) ~> (callerPc = "released")
  /\ [](registered => callerPc # "released")

C8_Witness ==
  /\ ~registered
  /\ stopCh
  /\ runPc = "done"
  /\ callerPc = "released"

\* C9: the informer runs on a goroutine Run starts (it is never running
\* before line 34, and does get started); Run does not return before the stop
\* channel is closed and does return once it is; the informer only moves idle
\* -> running -> stopped, the last only when the stop channel is closed.
C9_RunLifecycle ==
  /\ [](informer # "idle" => runPc \in {"blocked", "done"})
  /\ (runPc = "blocked") ~> (informer # "idle")
  /\ [](runPc = "done" => stopCh)
  /\ (runPc # "none" /\ stopCh) ~> (runPc = "done")
  /\ [][informer' # informer =>
          \/ informer = "idle" /\ informer' = "running"
          \/ informer = "running" /\ informer' = "stopped" /\ stopCh]_vars
  /\ [](informer = "stopped" => [](informer = "stopped"))

C9_Witness ==
  /\ runPc = "done"
  /\ informer = "stopped"
  /\ dispatched # <<>>

\* C10: the system only creates: every outbound call is a create issued for
\* an add notification (updates and deletes of a namespace cause no call),
\* and no step of the handler removes or changes an object of the cluster,
\* also when one of its two calls succeeded and the other failed.
C10_OnlyCreates ==
  /\ [](\A c \in Range(calls) :
          /\ c.verb = "create"
          /\ \E e \in Adds : e.id = c.evt)
  /\ [][(Len(dispatched') > Len(dispatched)
            /\ Head(queue).type \in {"update", "sync", "delete"})
          => (calls' = calls /\ logs' = logs /\ store' = store)]_vars
  /\ [][(calls' # calls \/ logs' # logs) => store \subseteq store']_vars

C10_Witness ==
  /\ \E e \in Range(dispatched) : e.type = "update"
  /\ \E e \in Returned :
       /\ Len(CallsOf(e.id)) = 2
       /\ CallsOf(e.id)[1].result = ""
       /\ Failed(CallsOf(e.id)[2])
       /\ LimitRange(e.ns) \in store
       /\ ResourceQuota(e.ns) \notin store

\* C11: the cluster never holds two objects of one kind under one name in a
\* namespace, so at most one LimitRange lr-auto-N and one ResourceQuota
\* rq-auto-N per namespace N; a creation call that returns while an object of
\* its name exists fails with AlreadyExists, the failure is logged, the
\* objects of the cluster stay as they are and the call is not issued again.
C11_AtMostOneAndCollisionFails ==
  /\ [](\A o, p \in store : SameKey(o, p) => o = p)
  /\ [](\A n \in pool :
          /\ Cardinality({o \in store : /\ o.Kind = "LimitRange"
                                        /\ o.Namespace = n
                                        /\ o.Name = LimitRangeName(n)}) <= 1
          /\ Cardinality({o \in store : /\ o.Kind = "ResourceQuota"
                                        /\ o.Namespace = n
                                        /\ o.Name = ResourceQuotaName(n)}) <= 1)
  /\ [][(hPc = "lr" /\ hPc' # "lr"
           /\ \E o \in store : SameKey(o, LimitRange(hEvt.ns)))
          => /\ store' = store
             /\ calls'[Len(calls)].result = "AlreadyExists"
             /\ logs' = Append(logs, LogLine(hEvt.id,
                           "Failed to create limitRange: %s", "AlreadyExists"))
             /\ Len(calls') = Len(calls) + 1
             /\ calls'[Len(calls')].obj.Kind = "ResourceQuota"]_vars
  /\ [][(hPc = "rq" /\ hPc' # "rq"
           /\ \E o \in store : SameKey(o, ResourceQuota(hEvt.ns)))
          => /\ store' = store
             /\ calls'[Len(calls)].result = "AlreadyExists"
             /\ logs' = Append(logs, LogLine(hEvt.id,
                           "Failed to create ResourceQuotas: %s", "AlreadyExists"))
             /\ Len(calls') = Len(calls)]_vars

C11_Witness ==
  \E e \in Returned :
    /\ Len(CallsOf(e.id)) = 2
    /\ CallsOf(e.id)[1].result = "AlreadyExists"
    /\ CallsOf(e.id)[2].result = "AlreadyExists"
    /\ OtherLimitRange(e.ns) \in store
    /\ ResourceQuota(e.ns) \in store

\* C12: within one handler invocation the ResourceQuota creation call is
\* issued only after the LimitRange creation call of that invocation has
\* returned (with or without an error), and the two are never outstanding
\* together.
C12_QuotaAfterLimitRangeReturned ==
  /\ \A i \in DOMAIN calls :
       calls[i].obj.Kind = "ResourceQuota" =>
         \E j \in 1..(i - 1) :
           /\ calls[j].evt = calls[i].evt
           /\ calls[j].obj.Kind = "LimitRange"
           /\ calls[j].result # "pending"
  /\ \A i, j \in DOMAIN calls :
       (i # j /\ calls[i].evt = calls[j].evt) =>
         ~(calls[i].result = "pending" /\ calls[j].result = "pending")

C12_Witness ==
  /\ hPc = "rq"
  /\ \E i, j \in DOMAIN calls :
       /\ j < i
       /\ calls[i].evt = calls[j].evt
       /\ calls[j].obj.Kind = "LimitRange"
       /\ Failed(calls[j])
       /\ calls[i].obj.Kind = "ResourceQuota"
       /\ calls[i].result = "pending"

\* C13: handler invocations do not overlap and follow the order of delivery:
\* notifications are dispatched in the order the informer accepted them, at
\* most one creation call is outstanding at any time, and every call of one
\* notification (both of them, for a namespace that is not skipped) has
\* returned before the first call of a later notification is issued.
C13_OneAtATimeInOrder ==
  /\ \A i, j \in DOMAIN dispatched : i < j => dispatched[i].id < dispatched[j].id
  /\ \A i \in DOMAIN queue :
       \A e \in Range(dispatched) : e.id < queue[i].id
  /\ \A i, j \in DOMAIN calls :
       (i # j) => ~(calls[i].result = "pending" /\ calls[j].result = "pending")
  /\ \A i \in DOMAIN calls :
       calls[i].result = "pending" => (hPc # "idle" /\ calls[i].evt = hEvt.id)
  /\ \A i, j \in DOMAIN calls :
       (i < j /\ calls[i].evt # calls[j].evt) =>
         /\ calls[i].evt < calls[j].evt
         /\ KindsOf(calls[i].evt) = <<"LimitRange", "ResourceQuota">>
         /\ \A c \in Range(CallsOf(calls[i].evt)) : c.result # "pending"

C13_Witness ==
  /\ hPc = "lr"
  /\ Len(queue) = 0
  /\ \E e \in Returned :
       /\ e.id < hEvt.id
       /\ Len(CallsOf(e.id)) = 2
       /\ Len(CallsOf(hEvt.id)) = 1

\* The callback has run for notification e: it issued a call or logged.
Invoked(e) == CallsOf(e.id) # <<>> \/ LogsOf(e.id) # <<>>

\* Adds the informer accepted for namespaces the handler does not skip, and
\* whether each has got its two creation attempts.
AcceptedAdds ==
  {e \in Range(queue) \cup Range(dispatched) :
     e.type = "add" /\ ~MatchString(e.ns)}
AllAttempted ==
  \A e \in AcceptedAdds : KindsOf(e.id) = <<"LimitRange", "ResourceQuota">>

\* C14 as stated: the callback is invoked for every add the informer
\* dispatches, the first report of a namespace and its replay by a resync
\* alike.
C14_CallbackOnAddsAndResyncs ==
  \A e \in Range(dispatched) : e.type \in {"add", "sync"} => Invoked(e)

\* C14, amended: the callback is invoked on every add: each namespace that
\* exists when the informer starts (before the stop channel is closed) or is
\* created while it runs is reported as an add, every dispatched add invokes
\* the callback, and every add for a namespace the handler does not skip
\* eventually gets both creation attempts unless the stop channel is closed
\* first; the periodic resync reports the namespaces the informer holds as
\* updates, which have no callback, and so does not invoke the callback again.
C14_AddsGetBothAttempts ==
  /\ [][(informer = "idle" /\ informer' = "running" /\ ~stopCh) =>
          \A n \in namespaces :
            \E i \in DOMAIN queue' :
              queue'[i].type = "add" /\ queue'[i].ns = n]_vars
  /\ [][\A n \in namespaces' \ namespaces :
          /\ queue' # <<>>
          /\ queue'[Len(queue')].type = "add"
          /\ queue'[Len(queue')].ns = n]_vars
  /\ [](\A e \in Range(dispatched) : e.type = "add" => Invoked(e))
  /\ (~AllAttempted) ~> (stopCh \/ AllAttempted)
  /\ [](\A e \in Range(dispatched) : e.type = "sync" => ~Invoked(e))

C14_Witness ==
  /\ ~stopCh
  /\ \E e \in Range(dispatched) :
       /\ e.type = "add"
       /\ e.ns = TeamA
       /\ Len(CallsOf(e.id)) = 2
       /\ \E f \in Range(dispatched) :
            f.type = "sync" /\ f.ns = TeamA /\ f.id > e.id /\ ~Invoked(f)

\* C15: the return of Run depends on the stop channel alone: once Run blocks
\* on the channel and the channel is closed, Run can return whatever the
\* informer and the handler are doing, and its return (with wg.Done()) leaves
\* the informer, its queue and the handler invocation in progress as they are.
C15_RunReturnsOnStopAlone ==
  /\ []((runPc = "blocked" /\ stopCh) => ENABLED RunReturn)
  /\ [][(runPc # "done" /\ runPc' = "done") =>
          /\ wg' = wg - 1
          /\ UNCHANGED <<informer, queue, dispatched, hPc, hEvt, calls, logs>>]_vars

\* Run has returned and the waiting caller is released while the LimitRange
\* call is outstanding and the ResourceQuota call is yet to be issued.
C15_Witness ==
  /\ runPc = "done"
  /\ callerPc = "released"
  /\ informer = "running"
  /\ hPc = "lr"
  /\ calls[Len(calls)].result = "pending"
  /\ \A c \in Range(calls) : c.obj.Kind # "ResourceQuota"

====
